---- MODULE Spec2Model ----
(***************************************************************************)
(* NetMonitor: the polling scheduler of MonitorService                     *)
(* (netmonitor/src/app/services/monitor.service.ts) as a state machine.    *)
(*                                                                         *)
(* Time is in milliseconds.  One step of the model is one macrotask of the *)
(* JavaScript event loop: a call of startMonitoring or stopMonitoring, a   *)
(* firing of the RxJS timer, the settling of a transport promise together  *)
(* with the microtasks that deliver it, the settling of a database write,  *)
(* a change of the settings or of the database, or the passing of time.    *)
(* PingRepository (unnamed/part_006) is the persistence side of the        *)
(* subscriber.                                                             *)
(***************************************************************************)
EXTENDS Integers, Sequences, FiniteSets

\* ---------------------------------------------------------------- bounds
\* Clock steps, startMonitoring calls and ticks of a run of Spec.
MaxSteps == 2
MaxRuns == 2
MaxTicks == 2
\* Clock steps of a run of SpecHist and the failed probes it allows.
HistSteps == 51
HistFails == 1
\* Clock steps and ticks of a run of SpecPersist.
PersistSteps == 2
PersistTicks == 3
\* The longest history the page is given in SpecStats.
MaxStatLen == 4
\* SettingsService calls of a run of SpecSettingsSeq and of SpecSettings.
MaxSeqCalls == 2
MaxCalls == 2
\* Clock steps, startMonitoring calls and ticks of a run of SpecInterval.
IntervalSteps == 2
IntervalRuns == 2
IntervalTicks == 3
\* onIntervalChange calls of a run of SpecPage.
MaxChanges == 2
\* Calls the page makes of its service in a run of SpecPage.
MaxPageCalls == 2
\* Direct calls of the SettingsRepository in a run of SpecRepository.
MaxRequests == 3
\* Clock steps and ticks of a run of SpecPlatform.
PlatformSteps == 2
PlatformTicks == 3
\* Clock steps, startMonitoring calls and ticks of a run of SpecEnv.
EnvSteps == 1
EnvRuns == 1
EnvTicks == 2

\* The clock advances in steps of 500 ms, the shortest interval in use.
Step == 500
\* null / undefined.
Null == -1
\* Values the caller passes to startMonitoring (Null: no override).
Overrides == {Null, Step}
\* pingInterval values of the settings, in seconds.
ConfigIntervals == {1, 2}
\* pingTarget values of the settings.
Targets == {"8.8.8.8", "1.1.1.1"}
\* The partial objects the update methods are called with.
MonitoringPartials == {[pingTarget |-> "1.1.1.1"], [pingInterval |-> 2]}
RegionPartials == {[countryCode |-> "US", countryName |-> "United States"]}
UserInfoPartials == {[name |-> "Ana"]}
ConnectionInfoPartials == {[contractedSpeed |-> 100]}
\* The keys, values and row texts the SettingsRepository is called with and
\* finds in its table.
RepositoryKeys == {"monitoring_config", "region", "__proto__"}
RepositoryValues == {[pingTarget |-> "1.1.1.1", pingInterval |-> 10]}
\* The values onIntervalChange is called with.
IntervalInputs == {-1, 0, 1, 10, 59, 60, 61, 100}
\* Latencies of the histories the page is given.
StatLatencies == {10, 20, 30}
\* latency_ms values the native backend reports.
Latencies == {10}

\* --------------------------------------------------------------- state
VARIABLES
    now,                 \* the clock (Date.now())
    cfgTarget,           \* settings.monitoringConfig.pingTarget
    cfgInterval,         \* settings.monitoringConfig.pingInterval (seconds)
    tauri,               \* window.__TAURI__ is set
    pollingSubscription, \* id of the run it refers to, Null when null
    isMonitoring,        \* _isMonitoring$.value
    results,             \* _results$.value
    loops,               \* the live timer subscriptions
    runs,                \* log: one record per startMonitoring call
    ticks,               \* log: one record per firing of a timer
    published,           \* log: every value the subscriber received
    saved,               \* log: every call of pingRepository.savePing
    dbInitialized,       \* db.isInitialized
    executed,            \* log: every db.execute call of PingRepository
    promises,            \* the promise each savePing call returned
    stats,               \* HomePage.stats
    cfgOther,            \* settings: region, userInfo and connectionInfo
    stored,              \* the settings table: key -> text of the value
    calls,               \* the SettingsService calls that await the database
    microtasks,          \* queue: the SettingsService calls whose awaited
                         \* promise is already resolved
    issued,              \* log: every SettingsService call
    requests,            \* log: every direct call of the SettingsRepository
    page                 \* SettingsPage: its subscription and fields, and
                         \* the log of its onIntervalChange calls

vars == <<now, cfgTarget, cfgInterval, tauri, pollingSubscription,
          isMonitoring, results, loops, runs, ticks, published, saved,
          dbInitialized, executed, promises, stats, cfgOther, stored, calls,
          microtasks, issued, requests, page>>

envVars == <<cfgTarget, cfgInterval, tauri, dbInitialized>>
logVars == <<ticks, published, saved, executed, promises>>
\* The page and the settings service, which the scheduler does not touch.
appVars == <<stats, cfgOther, stored, calls, microtasks, issued, requests,
             page>>

\* ------------------------------------------------------------- helpers
HistoryCap == 50

Last(s) == s[Len(s)]

\* Array.prototype.slice(-n): the last n elements, all of them when shorter.
SliceLast(s, n) ==
    IF Len(s) <= n THEN s ELSE SubSeq(s, Len(s) - n + 1, Len(s))

\* A history that keeps one entry too many.
HistoryPushOffByOne(current, result) ==
    SliceLast(Append(current, result), HistoryCap + 1)

\* [...current, result].slice(-50)
HistoryPush(current, result) == SliceLast(Append(current, result), HistoryCap)

\* The settings getters.
pingTarget == cfgTarget
pingIntervalMs == cfgInterval * 1000

isTauri == tauri

\* The PingResult literals of the service.
OkResult(latency, t) ==
    [latencyMs |-> latency, timestamp |-> t, status |-> "ok"]

\* An error result that reports a latency of 0.
ErrorResultZero(t) ==
    [latencyMs |-> 0, timestamp |-> t, status |-> "error"]

ErrorResult(t) ==
    [latencyMs |-> Null, timestamp |-> t, status |-> "error"]

\* The transport measureLatency selects: the native backend, or a web
\* request (CapacitorHttp.request or fetch, which measureWebLatency awaits
\* in the same way).
Transport == IF isTauri THEN "tauri" ELSE "web"

\* Probes issued and still outstanding at the transport.
InFlight == {t \in 1..Len(ticks) : ticks[t].outcome = "pending"}

\* The pending writes of the database.
PendingWrites == {i \in 1..Len(executed) : executed[i].state = "pending"}

\* pollingSubscription.unsubscribe(): the timer and the inner subscription
\* of that run are torn down; nothing when pollingSubscription is null.
Unsubscribed == {l \in loops : l.run # pollingSubscription}

\* An inner subscription that no unsubscribe ever closes.
SubscribedNoCancel(t) == TRUE

\* mergeMap in the place of switchMap: every inner observable of a live
\* pipeline stays subscribed.
SubscribedMerge(t) == \E l \in loops : l.run = ticks[t].run

\* The inner observable of tick t is still subscribed: its run's pipeline is
\* live and switchMap has not switched away from it.
Subscribed(t) ==
    \E l \in loops : l.run = ticks[t].run /\ l.inner = t

\* An interval that is always the configured one.
ResolveIntervalConfigOnly(intervalMs) == pingIntervalMs

\* intervalMs ?? this.pingIntervalMs
ResolveInterval(intervalMs) ==
    IF intervalMs # Null THEN intervalMs ELSE pingIntervalMs

\* ------------------------------------------------------------ settings
\* The database keys of the four sections.
KEY_MONITORING_CONFIG == "monitoring_config"
KEY_REGION == "region"
KEY_USER_INFO == "user_info"
KEY_CONNECTION_INFO == "connection_info"

DEFAULT_SETTINGS ==
    [monitoringConfig |-> [pingTarget |-> "8.8.8.8", pingInterval |-> 5],
     region |-> [countryCode |-> "BR", countryName |-> "Brasil",
                 regulatoryBody |-> "Anatel", consumerProtection |-> "PROCON",
                 applicableLaw |-> "Marco Civil da Internet"],
     userInfo |-> [name |-> "", document |-> "", documentType |-> "CPF",
                   address |-> "", phone |-> ""],
     connectionInfo |-> [providerName |-> "", planName |-> "",
                         contractedSpeed |-> Null, connectionType |-> Null,
                         contractNumber |-> ""]]

\* An object without properties, and what spreading undefined adds.
EmptyObject == [f \in {} |-> Null]

\* _settings$.getValue()
Settings ==
    [monitoringConfig |-> [pingTarget |-> cfgTarget,
                           pingInterval |-> cfgInterval],
     region |-> cfgOther.region,
     userInfo |-> cfgOther.userInfo,
     connectionInfo |-> cfgOther.connectionInfo]

\* { ...base, ...partial }
Spread(base, partial) ==
    [f \in DOMAIN base \cup DOMAIN partial |->
        IF f \in DOMAIN partial THEN partial[f] ELSE base[f]]

\* JSON.stringify of a flat object: its "name": value members.
Stringify(value) == {<<f, value[f]>> : f \in DOMAIN value}

\* JSON.parse of such a text.
Parse(text) ==
    [f \in {m[1] : m \in text} |-> (CHOOSE m \in text : m[1] = f)[2]]

\* The settings table without rows.
EmptyTable == [k \in {} |-> {}]

\* INSERT OR REPLACE INTO settings (key, value)
Replace(table, key, text) ==
    [k \in DOMAIN table \cup {key} |-> IF k = key THEN text ELSE table[k]]

\* A value of a row that is not JSON.
Malformed == {<<"not valid json {">>}

\* JSON.parse(text) returns and does not throw.
IsJson(text) == \A m \in text : Len(m) = 2

\* The key that names the prototype accessor of Object.prototype.
PROTO == "__proto__"

\* result[key] = value on an object literal: an own property is created or
\* replaced, but under the key __proto__ the assignment goes to the
\* prototype accessor and the object gets no own property.
Assign(object, key, value) ==
    IF key = PROTO THEN object
    ELSE [k \in DOMAIN object \cup {key} |->
             IF k = key THEN value ELSE object[k]]

\* The loop of getAllSettings over the rows: a value that parses is
\* assigned under its key, a malformed one is skipped.
RECURSIVE ReadRows(_, _, _)
ReadRows(table, result, keys) ==
    IF keys = {} THEN result
    ELSE LET key == CHOOSE k \in keys : TRUE
         IN  ReadRows(table,
                      IF IsJson(table[key])
                      THEN Assign(result, key, Parse(table[key]))
                      ELSE result,
                      keys \ {key})

\* What getAllSettings builds from the rows of the table.
AllSettings == ReadRows(stored, EmptyObject, DOMAIN stored)

\* stored[key], undefined spreading as nothing.
StoredSection(all, key) == IF key \in DOMAIN all THEN all[key] ELSE EmptyObject

\* A merge in which the defaults overwrite the stored fields.
LoadMergedDefaultsWin(all) ==
    [monitoringConfig |-> Spread(StoredSection(all, KEY_MONITORING_CONFIG),
                                 DEFAULT_SETTINGS.monitoringConfig),
     region |-> Spread(StoredSection(all, KEY_REGION),
                       DEFAULT_SETTINGS.region),
     userInfo |-> Spread(StoredSection(all, KEY_USER_INFO),
                         DEFAULT_SETTINGS.userInfo),
     connectionInfo |-> Spread(StoredSection(all, KEY_CONNECTION_INFO),
                               DEFAULT_SETTINGS.connectionInfo)]

\* The merged settings of loadSettings.
LoadMerged(all) ==
    [monitoringConfig |-> Spread(DEFAULT_SETTINGS.monitoringConfig,
                                 StoredSection(all, KEY_MONITORING_CONFIG)),
     region |-> Spread(DEFAULT_SETTINGS.region,
                       StoredSection(all, KEY_REGION)),
     userInfo |-> Spread(DEFAULT_SETTINGS.userInfo,
                         StoredSection(all, KEY_USER_INFO)),
     connectionInfo |-> Spread(DEFAULT_SETTINGS.connectionInfo,
                               StoredSection(all, KEY_CONNECTION_INFO))]

\* ---------------------------------------------------------- statistics
\* Fractions <<numerator, denominator>> in lowest terms.
RECURSIVE GCD(_, _)
GCD(a, b) == IF b = 0 THEN a ELSE GCD(b, a % b)

Fraction(n, d) == IF n = 0 THEN <<0, 1>> ELSE <<n \div GCD(n, d), d \div GCD(n, d)>>

Abs(x) == IF x < 0 THEN -x ELSE x

RECURSIVE Pow16(_)
Pow16(k) == IF k = 0 THEN 1 ELSE 16 * Pow16(k - 1)

RECURSIVE SumOf(_)
SumOf(seq) == IF seq = << >> THEN 0 ELSE seq[1] + SumOf(Tail(seq))

IsOk(m) == m.status = "ok"

\* Every entry as a latency, a failed one as 0.
AllLatencies(history) ==
    [i \in 1..Len(history) |->
        IF IsOk(history[i]) THEN history[i].latencyMs ELSE 0]

\* The latencies of the Ok measurements, in the order of the history.
OkLatencies(history) ==
    LET ok == SelectSeq(history, IsOk)
    IN  [i \in 1..Len(ok) |-> ok[i].latencyMs]

\* The latency of the last entry, whatever its status.
CurrentOfLastEntry(history) ==
    IF history = << >> THEN 0 ELSE Last(history).latencyMs

\* current: the latency of the most recent Ok measurement, 0 without one.
CurrentOf(history) ==
    LET ok == OkLatencies(history)
    IN  IF ok = << >> THEN 0 ELSE Last(ok)

AverageOf(ok) == IF ok = << >> THEN <<0, 1>> ELSE Fraction(SumOf(ok), Len(ok))

\* Math.min() without arguments: a value above every latency.
MinOfNoGuard(ok) ==
    IF ok = << >> THEN 1000000
    ELSE CHOOSE x \in {ok[i] : i \in 1..Len(ok)} :
             \A i \in 1..Len(ok) : x <= ok[i]

MinOf(ok) ==
    IF ok = << >> THEN 0
    ELSE CHOOSE x \in {ok[i] : i \in 1..Len(ok)} :
             \A i \in 1..Len(ok) : x <= ok[i]

MaxOf(ok) ==
    IF ok = << >> THEN 0
    ELSE CHOOSE x \in {ok[i] : i \in 1..Len(ok)} :
             \A i \in 1..Len(ok) : x >= ok[i]

\* The mean of the absolute differences of consecutive latencies.
JitterMeanDiff(ok) ==
    IF Len(ok) < 2 THEN <<0, 1>>
    ELSE Fraction(SumOf([i \in 1..(Len(ok) - 1) |-> Abs(ok[i + 1] - ok[i])]),
                  Len(ok) - 1)

\* The numerator of J over 16^(Len(ok) - 1), J being updated by
\* J += (D - J) / 16 for each consecutive pair, from J = 0.
RECURSIVE JitterNumerator(_)
JitterNumerator(ok) ==
    IF Len(ok) < 2 THEN 0
    ELSE 15 * JitterNumerator(SubSeq(ok, 1, Len(ok) - 1))
         + Abs(ok[Len(ok)] - ok[Len(ok) - 1]) * Pow16(Len(ok) - 2)

\* jitter: the RFC 1889 estimate over the Ok latencies.
JitterOf(ok) ==
    IF Len(ok) < 2 THEN <<0, 1>>
    ELSE Fraction(JitterNumerator(ok), Pow16(Len(ok) - 1))

\* The statistics snapshot of a history.
Stats(history) ==
    LET ok == OkLatencies(history)
    IN  [current |-> CurrentOf(history), avg |-> AverageOf(ok),
         min |-> MinOf(ok), max |-> MaxOf(ok), jitter |-> JitterOf(ok)]

\* The histories the page is given: Ok measurements and failed ones.
Measurement(latency, t) ==
    IF latency = Null THEN ErrorResult(t) ELSE OkResult(latency, t)

StatHistories ==
    UNION {{[i \in 1..n |-> Measurement(f[i], i * Step)] :
               f \in [1..n -> StatLatencies \cup {Null}]} : n \in 0..MaxStatLen}

\* SettingsPage after construction: not subscribed, its fields at their
\* initialisers, no call made.
NewPage ==
    [subscription |-> FALSE, selectedTarget |-> "", pingInterval |-> 5,
     changes |-> << >>]

\* The statistics the page shows before any result.
ZeroStats == [current |-> 0, avg |-> <<0, 1>>, min |-> 0, max |-> 0,
              jitter |-> <<0, 1>>]

\* --------------------------------------------------------------- Init
Init ==
    /\ now = 0
    /\ cfgTarget = "8.8.8.8"
    /\ cfgInterval \in ConfigIntervals
    /\ tauri \in BOOLEAN
    /\ pollingSubscription = Null
    /\ isMonitoring = FALSE
    /\ results = << >>
    /\ loops = {}
    /\ runs = << >>
    /\ ticks = << >>
    /\ published = << >>
    /\ saved = << >>
    /\ dbInitialized = FALSE
    /\ executed = << >>
    /\ promises = << >>
    /\ stats = ZeroStats
    /\ cfgOther = [region |-> DEFAULT_SETTINGS.region,
                   userInfo |-> DEFAULT_SETTINGS.userInfo,
                   connectionInfo |-> DEFAULT_SETTINGS.connectionInfo]
    /\ stored = EmptyTable
    /\ calls = {}
    /\ microtasks = << >>
    /\ issued = << >>
    /\ requests = << >>
    /\ page = NewPage

\* ------------------------------------------------------------ actions
\* Date.prototype.getTime(): a Date is modelled by its time value, the
\* milliseconds since the epoch.
getTime(date) == date

\* A success flag taken from the truthiness of the latency.
InsertParamsTruthy(result, target) ==
    <<getTime(result.timestamp), result.latencyMs,
      IF result.latencyMs \notin {Null, 0} THEN 1 ELSE 0, target>>

\* The parameters of the INSERT INTO pings statement.
InsertParams(result, target) ==
    <<getTime(result.timestamp), result.latencyMs,
      IF result.status = "ok" THEN 1 ELSE 0, target>>

\* savePing without its isInitialized guard.
savePingNoGuard(result, target) ==
    /\ executed' = Append(executed,
                          [params |-> InsertParams(result, target),
                           state |-> "pending",
                           call |-> Len(promises) + 1])
    /\ promises' = Append(promises, "pending")

\* PingRepository.savePing up to its await: nothing when the database is not
\* initialised, one db.execute call otherwise.
savePing(result, target) ==
    IF ~dbInitialized
    THEN /\ UNCHANGED executed
         /\ promises' = Append(promises, "resolved")
    ELSE /\ executed' = Append(executed,
                               [params |-> InsertParams(result, target),
                                state |-> "pending",
                                call |-> Len(promises) + 1])
         /\ promises' = Append(promises, "pending")

\* The history as savePing's caller has it at the call.
SavedRecord(result, history) ==
    [result |-> result, target |-> pingTarget,
     appended |-> (history # << >> /\ Last(history) = result)]

\* A subscriber that persists the result before it updates the history.
ReceiveSaveFirst(result, t) ==
    /\ saved' = Append(saved, SavedRecord(result, results))
    /\ savePing(result, pingTarget)
    /\ results' = HistoryPush(results, result)
    /\ published' = Append(published, [result |-> result, tick |-> t])

\* The subscriber of the pipeline receiving `result`, the value of tick t:
\* the history is updated, then savePing is called and not awaited.
Receive(result, t) ==
    /\ results' = HistoryPush(results, result)
    /\ saved' = Append(saved, SavedRecord(result, results'))
    /\ savePing(result, pingTarget)
    /\ published' = Append(published, [result |-> result, tick |-> t])

\* The new run of a startMonitoring call.
NewLoop(intervalMs) ==
    [run |-> Len(runs) + 1, due |-> now,
     interval |-> ResolveInterval(intervalMs), inner |-> 0]

\* The call as the log keeps it: the argument, the configured interval at
\* the call, the interval of the timer and whether a run was replaced.
RunRecord(intervalMs) ==
    [interval |-> ResolveInterval(intervalMs),
     restart |-> pollingSubscription # Null,
     override |-> intervalMs,
     config |-> pingIntervalMs]

\* startMonitoring that starts the loop and leaves isMonitoring$ as it is.
startMonitoringNoFlag(intervalMs) ==
    /\ runs' = Append(runs, RunRecord(intervalMs))
    /\ loops' = Unsubscribed \cup {NewLoop(intervalMs)}
    /\ pollingSubscription' = Len(runs) + 1
    /\ UNCHANGED <<appVars, now, envVars, isMonitoring, results, logVars>>

\* startMonitoring that begins its run with an empty history.
startMonitoringClearsHistory(intervalMs) ==
    /\ runs' = Append(runs, RunRecord(intervalMs))
    /\ loops' = Unsubscribed \cup {NewLoop(intervalMs)}
    /\ pollingSubscription' = Len(runs) + 1
    /\ isMonitoring' = TRUE
    /\ results' = << >>
    /\ UNCHANGED <<appVars, now, envVars, logVars>>

\* startMonitoring without its call of stopMonitoring.
startMonitoringNoStop(intervalMs) ==
    /\ runs' = Append(runs, RunRecord(intervalMs))
    /\ loops' = loops \cup {NewLoop(intervalMs)}
    /\ pollingSubscription' = Len(runs) + 1
    /\ isMonitoring' = TRUE
    /\ UNCHANGED <<appVars, now, envVars, results, logVars>>

startMonitoring(intervalMs) ==
    /\ runs' = Append(runs, RunRecord(intervalMs))
    /\ loops' = Unsubscribed \cup {NewLoop(intervalMs)}
    /\ pollingSubscription' = Len(runs) + 1
    /\ isMonitoring' = TRUE
    /\ UNCHANGED <<appVars, now, envVars, results, logVars>>

\* stopMonitoring that flips isMonitoring$ instead of clearing it.
stopMonitoringToggle ==
    /\ loops' = Unsubscribed
    /\ pollingSubscription' = Null
    /\ isMonitoring' = ~isMonitoring
    /\ UNCHANGED <<appVars, now, envVars, results, runs, logVars>>

\* stopMonitoring that drops the reference and leaves the subscription open.
stopMonitoringNoUnsubscribe ==
    /\ pollingSubscription' = Null
    /\ isMonitoring' = FALSE
    /\ UNCHANGED <<appVars, now, envVars, results, loops, runs, logVars>>

stopMonitoring ==
    /\ loops' = Unsubscribed
    /\ pollingSubscription' = Null
    /\ isMonitoring' = FALSE
    /\ UNCHANGED <<appVars, now, envVars, results, runs, logVars>>

\* A timer whose probes all go to the target of the run's first probe.
TimerFiresCachedTarget(l) ==
    /\ l \in loops
    /\ l.due <= now
    /\ ticks' = Append(ticks,
          [run |-> l.run, at |-> now,
           target |-> IF \E t \in 1..Len(ticks) : ticks[t].run = l.run
                      THEN ticks[CHOOSE t \in 1..Len(ticks) :
                                    ticks[t].run = l.run].target
                      ELSE pingTarget,
           transport |-> Transport, outcome |-> "pending"])
    /\ loops' = (loops \ {l}) \cup
          {[l EXCEPT !.due = l.due + l.interval, !.inner = Len(ticks) + 1]}
    /\ UNCHANGED <<appVars, now, envVars, pollingSubscription, isMonitoring, results,
                   runs, published, saved, executed, promises>>

\* A timer whose probes all use the transport of the run's first probe.
TimerFiresCachedTransport(l) ==
    /\ l \in loops
    /\ l.due <= now
    /\ ticks' = Append(ticks,
          [run |-> l.run, at |-> now, target |-> pingTarget,
           transport |-> IF \E t \in 1..Len(ticks) : ticks[t].run = l.run
                         THEN ticks[CHOOSE t \in 1..Len(ticks) :
                                       ticks[t].run = l.run].transport
                         ELSE Transport,
           outcome |-> "pending"])
    /\ loops' = (loops \ {l}) \cup
          {[l EXCEPT !.due = l.due + l.interval, !.inner = Len(ticks) + 1]}
    /\ UNCHANGED <<appVars, now, envVars, pollingSubscription, isMonitoring, results,
                   runs, published, saved, executed, promises>>

\* A timer that waits for the pending writes before it fires.
TimerFiresAfterWrites(l) ==
    /\ l \in loops
    /\ l.due <= now
    /\ PendingWrites = {}
    /\ ticks' = Append(ticks, [run |-> l.run, at |-> now, target |-> pingTarget,
                               transport |-> Transport, outcome |-> "pending"])
    /\ loops' = (loops \ {l}) \cup
          {[l EXCEPT !.due = l.due + l.interval, !.inner = Len(ticks) + 1]}
    /\ UNCHANGED <<appVars, now, envVars, pollingSubscription, isMonitoring, results,
                   runs, published, saved, executed, promises>>

\* A timer fires: switchMap drops the previous inner subscription and
\* subscribes to measureLatency(), which issues the probe at once.
TimerFires(l) ==
    /\ l \in loops
    /\ l.due <= now
    /\ ticks' = Append(ticks, [run |-> l.run, at |-> now, target |-> pingTarget,
                               transport |-> Transport, outcome |-> "pending"])
    /\ loops' = (loops \ {l}) \cup
          {[l EXCEPT !.due = l.due + l.interval, !.inner = Len(ticks) + 1]}
    /\ UNCHANGED <<appVars, now, envVars, pollingSubscription, isMonitoring, results,
                   runs, published, saved, executed, promises>>

\* A timer fires and measureLatency() throws before it returns an
\* observable: the error reaches the outer catchError, whose replacement
\* emits one error result and completes, which ends the pipeline.  Only the
\* native branch can throw: it evaluates tauriService.invoke(...) in the
\* projection, while the web branch calls an async function, whose errors
\* are rejections.
TimerFiresThrow(l) ==
    /\ tauri
    /\ l \in loops
    /\ l.due <= now
    /\ ticks' = Append(ticks, [run |-> l.run, at |-> now, target |-> pingTarget,
                               transport |-> Transport, outcome |-> "threw"])
    /\ Receive(ErrorResult(now), Len(ticks) + 1)
    /\ loops' = loops \ {l}
    /\ UNCHANGED <<appVars, now, envVars, pollingSubscription, isMonitoring, runs>>

\* A timer fires on the web branch and the request throws as it is made:
\* measureWebLatency is async, so its promise is rejected at once, and the
\* inner catchError delivers one error result in the microtasks of the
\* same task.  The inner observable is complete and the timer goes on.
TimerFiresWebThrow(l) ==
    /\ ~tauri
    /\ l \in loops
    /\ l.due <= now
    /\ ticks' = Append(ticks, [run |-> l.run, at |-> now, target |-> pingTarget,
                               transport |-> Transport, outcome |-> "threw"])
    /\ Receive(ErrorResult(now), Len(ticks) + 1)
    /\ loops' = (loops \ {l}) \cup
          {[l EXCEPT !.due = l.due + l.interval, !.inner = 0]}
    /\ UNCHANGED <<appVars, now, envVars, pollingSubscription, isMonitoring, runs>>

\* The value the inner observable of tick t emits when its transport
\* settles: the backend's latency_ms (native), the elapsed time (web), or
\* the error result of the inner catchError.
measureLatency(t, ok, latency) ==
    IF ~ok THEN ErrorResult(now)
    ELSE IF ticks[t].transport = "tauri" THEN OkResult(latency, now)
    ELSE OkResult(now - ticks[t].at, now)

\* The inner observable completes: switchMap holds no inner subscription.
InnerDone(t) ==
    {IF l.inner = t THEN [l EXCEPT !.inner = 0] ELSE l : l \in loops}

\* Settle without the inner catchError: a rejection reaches the outer
\* catchError, whose replacement value ends the pipeline.
SettleNoInnerCatch(t, ok, latency) ==
    /\ t \in InFlight
    /\ ticks' = [ticks EXCEPT
                   ![t].outcome = IF ok THEN "resolved" ELSE "rejected"]
    /\ IF Subscribed(t)
       THEN /\ Receive(measureLatency(t, ok, latency), t)
            /\ loops' = IF ok THEN InnerDone(t)
                        ELSE {l \in loops : l.run # ticks[t].run}
       ELSE UNCHANGED <<results, published, saved, executed, promises,
                        loops>>
    /\ UNCHANGED <<appVars, now, envVars, pollingSubscription, isMonitoring, runs>>

\* The transport promise of tick t settles; its value is delivered when the
\* inner observable is still subscribed and dropped otherwise.
Settle(t, ok, latency) ==
    /\ t \in InFlight
    /\ ticks' = [ticks EXCEPT
                   ![t].outcome = IF ok THEN "resolved" ELSE "rejected"]
    /\ IF Subscribed(t)
       THEN /\ Receive(measureLatency(t, ok, latency), t)
            /\ loops' = InnerDone(t)
       ELSE UNCHANGED <<results, published, saved, executed, promises,
                        loops>>
    /\ UNCHANGED <<appVars, now, envVars, pollingSubscription, isMonitoring, runs>>

ProbeResolves(t, latency) == Settle(t, TRUE, latency)
ProbeRejects(t) == Settle(t, FALSE, Null)

\* db.execute resolves: savePing returns.
ExecuteResolves(i) ==
    /\ i \in PendingWrites
    /\ executed' = [executed EXCEPT ![i].state = "done"]
    /\ promises' = [promises EXCEPT ![executed[i].call] = "resolved"]
    /\ UNCHANGED <<appVars, now, envVars, pollingSubscription, isMonitoring, results,
                   loops, runs, ticks, published, saved>>

\* A rejected write that surfaces in the scheduler and ends its pipeline.
ExecuteRejectsSurfaces(i) ==
    /\ i \in PendingWrites
    /\ executed' = [executed EXCEPT ![i].state = "failed"]
    /\ promises' = [promises EXCEPT ![executed[i].call] = "resolved"]
    /\ loops' = Unsubscribed
    /\ UNCHANGED <<appVars, now, envVars, pollingSubscription, isMonitoring, results,
                   runs, ticks, published, saved>>

\* db.execute rejects and savePing has no catch: its promise rejects.
ExecuteRejectsNoCatch(i) ==
    /\ i \in PendingWrites
    /\ executed' = [executed EXCEPT ![i].state = "failed"]
    /\ promises' = [promises EXCEPT ![executed[i].call] = "rejected"]
    /\ UNCHANGED <<appVars, now, envVars, pollingSubscription, isMonitoring,
                   results, loops, runs, ticks, published, saved>>

\* db.execute rejects: savePing's catch logs the error and savePing returns.
ExecuteRejects(i) ==
    /\ i \in PendingWrites
    /\ executed' = [executed EXCEPT ![i].state = "failed"]
    /\ promises' = [promises EXCEPT ![executed[i].call] = "resolved"]
    /\ UNCHANGED <<appVars, now, envVars, pollingSubscription, isMonitoring, results,
                   loops, runs, ticks, published, saved>>

\* The database service finishes its initialisation.
DatabaseInit ==
    /\ ~dbInitialized
    /\ dbInitialized' = TRUE
    /\ UNCHANGED <<appVars, now, cfgTarget, cfgInterval, tauri, pollingSubscription,
                   isMonitoring, results, loops, runs, logVars>>

\* The settings service publishes a monitoring configuration with another
\* ping target.
SetTarget(target) ==
    /\ target # cfgTarget
    /\ cfgTarget' = target
    /\ UNCHANGED <<appVars, now, cfgInterval, tauri, dbInitialized,
                   pollingSubscription, isMonitoring, results, loops, runs,
                   logVars>>

\* window.__TAURI__ is set or deleted: the host capability appears or goes.
SetTauri(present) ==
    /\ present # tauri
    /\ tauri' = present
    /\ UNCHANGED <<appVars, now, cfgTarget, cfgInterval, dbInitialized,
                   pollingSubscription, isMonitoring, results, loops, runs,
                   logVars>>

\* A change of the ping interval that re-times the run in progress.
SetIntervalRetimes(seconds) ==
    /\ seconds # cfgInterval
    /\ cfgInterval' = seconds
    /\ loops' = {[l EXCEPT !.interval = seconds * 1000] : l \in loops}
    /\ UNCHANGED <<appVars, now, cfgTarget, tauri, dbInitialized,
                   pollingSubscription, isMonitoring, results, runs, logVars>>

\* The settings service publishes a monitoring configuration with another
\* ping interval.
SetInterval(seconds) ==
    /\ seconds # cfgInterval
    /\ cfgInterval' = seconds
    /\ UNCHANGED <<appVars, now, cfgTarget, tauri, dbInitialized,
                   pollingSubscription, isMonitoring, results, loops, runs,
                   logVars>>

\* results$ emits a history and the page recomputes its statistics.
ResultsEmitted(history) ==
    /\ results' = history
    /\ stats' = Stats(history)
    /\ UNCHANGED <<now, envVars, pollingSubscription, isMonitoring, loops,
                   runs, logVars, cfgOther, stored, calls, microtasks,
                   issued, requests, page>>

\* The subscriber of SettingsPage.ngOnInit, when the page is subscribed:
\* it copies the monitoring configuration into the fields of the page.
Subscriber(p, value) ==
    IF p.subscription
    THEN [p EXCEPT !.selectedTarget = value.monitoringConfig.pingTarget,
                   !.pingInterval = value.monitoringConfig.pingInterval]
    ELSE p

\* this._settings$.next(value), the page being p when the value is emitted.
PublishTo(p, value) ==
    /\ cfgTarget' = value.monitoringConfig.pingTarget
    /\ cfgInterval' = value.monitoringConfig.pingInterval
    /\ cfgOther' = [region |-> value.region, userInfo |-> value.userInfo,
                    connectionInfo |-> value.connectionInfo]
    /\ page' = Subscriber(p, value)

Publish(value) == PublishTo(page, value)

\* What a SettingsService call leaves alone.
settingsFrame ==
    <<now, tauri, dbInitialized, pollingSubscription, isMonitoring, results,
      loops, runs, logVars, stats, requests>>

\* The log entry of a call: awaiting the database when it is initialised,
\* skipped (the repository returns at once) when it is not.
IssuedRecord(kind, section, partial) ==
    [kind |-> kind, section |-> section, partial |-> partial,
     outcome |-> IF dbInitialized THEN "pending" ELSE "skipped"]

\* An update that publishes the defaults with its one section replaced.
SectionReplacedInDefaults(current, section, updated) ==
    [DEFAULT_SETTINGS EXCEPT ![section] = updated]

\* { ...current, <section>: updated }
SectionReplaced(current, section, updated) ==
    [current EXCEPT ![section] = updated]

\* A call suspended at its await: with the database initialised it awaits
\* the database, else the promise it awaits is resolved already and its
\* continuation is queued as a microtask, behind those queued before.
Awaits(call) ==
    IF dbInitialized
    THEN /\ calls' = calls \cup {call}
         /\ UNCHANGED microtasks
    ELSE /\ microtasks' = Append(microtasks, call)
         /\ UNCHANGED calls

\* The body the four update methods share, up to its await: read the
\* current settings, merge the partial into the section, call setSetting.
\* Nothing is published before the awaited promise has resolved, which is
\* after the caller's synchronous block even when setSetting returns at
\* once.  p is the page as the caller left it.
updateSectionFrom(p, section, key, partial) ==
    LET current == Settings
        updated == Spread(current[section], partial)
    IN  /\ issued' = Append(issued, IssuedRecord("update", section, partial))
        /\ Awaits([id |-> Len(issued) + 1, kind |-> "update",
                   section |-> section, key |-> key,
                   current |-> current, updated |-> updated])
        /\ page' = p
        /\ UNCHANGED <<settingsFrame, stored, cfgTarget, cfgInterval, cfgOther>>

updateSection(section, key, partial) ==
    updateSectionFrom(page, section, key, partial)

updateMonitoringConfig(config) ==
    updateSection("monitoringConfig", KEY_MONITORING_CONFIG, config)
updateRegion(region) == updateSection("region", KEY_REGION, region)
updateUserInfo(userInfo) == updateSection("userInfo", KEY_USER_INFO, userInfo)
updateConnectionInfo(connectionInfo) ==
    updateSection("connectionInfo", KEY_CONNECTION_INFO, connectionInfo)

\* The microtask of an update whose setSetting returned at once (database
\* not initialised): the update publishes its snapshot with its section.
SettingSkippedResumes ==
    /\ microtasks # << >>
    /\ Head(microtasks).kind = "update"
    /\ Publish(SectionReplaced(Head(microtasks).current,
                               Head(microtasks).section,
                               Head(microtasks).updated))
    /\ microtasks' = Tail(microtasks)
    /\ UNCHANGED <<settingsFrame, stored, calls, issued>>

\* The write of an update succeeds: the row is replaced, setSetting
\* resolves and the update publishes its snapshot with its section.
SettingWritten(c) ==
    /\ c \in calls
    /\ c.kind = "update"
    /\ stored' = Replace(stored, c.key, Stringify(c.updated))
    /\ Publish(SectionReplaced(c.current, c.section, c.updated))
    /\ calls' = calls \ {c}
    /\ issued' = [issued EXCEPT ![c.id].outcome = "done"]
    /\ UNCHANGED <<settingsFrame, microtasks>>

\* A failed write that makes the update reject before it publishes.
SettingWriteFailsUpdateRejects(c) ==
    /\ c \in calls
    /\ c.kind = "update"
    /\ calls' = calls \ {c}
    /\ issued' = [issued EXCEPT ![c.id].outcome = "failed"]
    /\ UNCHANGED <<settingsFrame, stored, microtasks, cfgTarget, cfgInterval,
                   cfgOther, page>>

\* The write of an update fails: setSetting logs the error and resolves,
\* and the update publishes all the same.
SettingWriteFails(c) ==
    /\ c \in calls
    /\ c.kind = "update"
    /\ Publish(SectionReplaced(c.current, c.section, c.updated))
    /\ calls' = calls \ {c}
    /\ issued' = [issued EXCEPT ![c.id].outcome = "failed"]
    /\ UNCHANGED <<settingsFrame, stored, microtasks>>

\* loadSettings up to its await of getAllSettings, which returns {} at
\* once when the database is not initialised.
loadSettings ==
    /\ issued' = Append(issued, IssuedRecord("load", "", EmptyObject))
    /\ Awaits([id |-> Len(issued) + 1, kind |-> "load", section |-> "",
               key |-> "", current |-> EmptyObject, updated |-> EmptyObject])
    /\ UNCHANGED <<settingsFrame, stored, cfgTarget, cfgInterval, cfgOther,
                   page>>

\* The microtask of a loadSettings whose getAllSettings returned {} at
\* once: the defaults are published.
LoadSkippedResumes ==
    /\ microtasks # << >>
    /\ Head(microtasks).kind = "load"
    /\ Publish(LoadMerged(EmptyObject))
    /\ microtasks' = Tail(microtasks)
    /\ UNCHANGED <<settingsFrame, stored, calls, issued>>

\* The select of getAllSettings returns the rows: the merged settings are
\* published.
LoadResolves(c) ==
    /\ c \in calls
    /\ c.kind = "load"
    /\ Publish(LoadMerged(AllSettings))
    /\ calls' = calls \ {c}
    /\ issued' = [issued EXCEPT ![c.id].outcome = "done"]
    /\ UNCHANGED <<settingsFrame, stored, microtasks>>

\* The select fails: getAllSettings logs the error and returns {}.
LoadFails(c) ==
    /\ c \in calls
    /\ c.kind = "load"
    /\ Publish(LoadMerged(EmptyObject))
    /\ calls' = calls \ {c}
    /\ issued' = [issued EXCEPT ![c.id].outcome = "failed"]
    /\ UNCHANGED <<settingsFrame, stored, microtasks>>

\* Math.max and Math.min of two integers.
Max(a, b) == IF a >= b THEN a ELSE b
Min(a, b) == IF a <= b THEN a ELSE b

\* What a step of the settings page alone leaves unchanged.
pageFrame ==
    <<now, cfgTarget, cfgInterval, tauri, dbInitialized, pollingSubscription,
      isMonitoring, results, loops, runs, logVars, stats, cfgOther, stored,
      calls, microtasks, issued, requests>>

\* SettingsPage.ngOnInit: the page subscribes to settings$, which emits the
\* current settings at once.
ngOnInit ==
    /\ ~page.subscription
    /\ page' = Subscriber([page EXCEPT !.subscription = TRUE], Settings)
    /\ UNCHANGED pageFrame

\* SettingsPage.ngOnDestroy: this.subscription?.unsubscribe().  The page
\* no longer receives the settings published.
ngOnDestroy ==
    /\ page' = [page EXCEPT !.subscription = FALSE]
    /\ UNCHANGED pageFrame

\* SettingsPage.onTargetChange up to its await of
\* settingsService.updateMonitoringConfig({ pingTarget: value }).
onTargetChange(value) ==
    updateSectionFrom(page, "monitoringConfig", KEY_MONITORING_CONFIG,
                      [pingTarget |-> value])

\* SettingsPage.restoreDefaults up to its await of
\* settingsService.updateMonitoringConfig(DEFAULT_SETTINGS.monitoringConfig).
restoreDefaults ==
    updateSectionFrom(page, "monitoringConfig", KEY_MONITORING_CONFIG,
                      DEFAULT_SETTINGS.monitoringConfig)

\* The page as onIntervalChange leaves it before it calls the service: the
\* field is written when the value was clamped, and the log gets the
\* value, the argument passed on and the field.
Changed(value, clamped) ==
    LET local == IF clamped # value
                 THEN [page EXCEPT !.pingInterval = clamped] ELSE page
    IN  [local EXCEPT !.changes =
            Append(@, [value |-> value,
                       passed |-> [pingInterval |-> clamped],
                       pingInterval |-> local.pingInterval])]

\* onIntervalChange that clamps from below only.
onIntervalChangeNoUpperBound(value) ==
    LET clamped == Max(1, value)
    IN  updateSectionFrom(Changed(value, clamped), "monitoringConfig",
                          KEY_MONITORING_CONFIG, [pingInterval |-> clamped])

\* SettingsPage.onIntervalChange up to its await of
\* settingsService.updateMonitoringConfig({ pingInterval: clamped }).
onIntervalChange(value) ==
    LET clamped == Max(1, Min(60, value))
    IN  updateSectionFrom(Changed(value, clamped), "monitoringConfig",
                          KEY_MONITORING_CONFIG, [pingInterval |-> clamped])

\* What a SettingsRepository call resolves to.
NoResult == [type |-> "none"]
NullResult == [type |-> "null"]
UndefinedResult == [type |-> "undefined"]
ObjectResult(value) == [type |-> "object", value |-> value]

\* What a direct call of the SettingsRepository leaves alone.
repositoryFrame ==
    <<now, cfgTarget, cfgInterval, tauri, dbInitialized, pollingSubscription,
      isMonitoring, results, loops, runs, logVars, stats, cfgOther, calls,
      microtasks, issued, page>>

\* The calls whose database operation is outstanding.
PendingRequests(op) ==
    {i \in 1..Len(requests) :
        requests[i].op = op /\ requests[i].promise = "pending"}

\* A call as the log keeps it: with the database not initialised no
\* operation is issued and the promise is resolved with the early return
\* value, else the operation is issued and awaited.
Request(op, key, value, early) ==
    [op |-> op, key |-> key, value |-> value, initialised |-> dbInitialized,
     database |-> IF dbInitialized THEN "pending" ELSE "none",
     promise |-> IF dbInitialized THEN "pending" ELSE "resolved",
     result |-> IF dbInitialized THEN NoResult ELSE early]

\* The awaited operation of call i succeeds or fails and the call returns.
Returned(i, outcome, result) ==
    [requests EXCEPT ![i].database = outcome, ![i].promise = "resolved",
                     ![i].result = result]

\* getSetting that issues its select whatever the state of the database.
getSettingNoGuard(key) ==
    /\ requests' = Append(requests,
          [op |-> "getSetting", key |-> key, value |-> EmptyObject,
           initialised |-> dbInitialized, database |-> "pending",
           promise |-> "pending", result |-> NoResult])
    /\ UNCHANGED <<repositoryFrame, stored>>

getSetting(key) ==
    /\ requests' = Append(requests,
                          Request("getSetting", key, EmptyObject, NullResult))
    /\ UNCHANGED <<repositoryFrame, stored>>

\* The select of getSetting returns: no row gives null, a row gives its
\* parsed value, and a row whose value does not parse makes JSON.parse
\* throw inside the try, which gives null.
GetSettingResolves(i) ==
    /\ i \in PendingRequests("getSetting")
    /\ requests' = Returned(i, "ok",
          IF requests[i].key \in DOMAIN stored
             /\ IsJson(stored[requests[i].key])
          THEN ObjectResult(Parse(stored[requests[i].key]))
          ELSE NullResult)
    /\ UNCHANGED <<repositoryFrame, stored>>

\* A failed select whose error leaves getSetting uncaught.
GetSettingFailsNoCatch(i) ==
    /\ i \in PendingRequests("getSetting")
    /\ requests' = [requests EXCEPT ![i].database = "failed",
                                    ![i].promise = "rejected"]
    /\ UNCHANGED <<repositoryFrame, stored>>

\* The select of getSetting fails: the error is logged, null is returned.
GetSettingFails(i) ==
    /\ i \in PendingRequests("getSetting")
    /\ requests' = Returned(i, "failed", NullResult)
    /\ UNCHANGED <<repositoryFrame, stored>>

setSetting(key, value) ==
    /\ requests' = Append(requests,
                          Request("setSetting", key, value, UndefinedResult))
    /\ UNCHANGED <<repositoryFrame, stored>>

\* The execute of setSetting succeeds: the row is inserted or replaced.
SetSettingResolves(i) ==
    /\ i \in PendingRequests("setSetting")
    /\ stored' = Replace(stored, requests[i].key,
                         Stringify(requests[i].value))
    /\ requests' = Returned(i, "ok", UndefinedResult)
    /\ UNCHANGED repositoryFrame

\* The execute of setSetting fails: the error is logged.
SetSettingFails(i) ==
    /\ i \in PendingRequests("setSetting")
    /\ requests' = Returned(i, "failed", UndefinedResult)
    /\ UNCHANGED <<repositoryFrame, stored>>

getAllSettings ==
    /\ requests' = Append(requests,
          Request("getAllSettings", "", EmptyObject, ObjectResult(EmptyObject)))
    /\ UNCHANGED <<repositoryFrame, stored>>

\* The select of getAllSettings returns the rows.
GetAllSettingsResolves(i) ==
    /\ i \in PendingRequests("getAllSettings")
    /\ requests' = Returned(i, "ok", ObjectResult(AllSettings))
    /\ UNCHANGED <<repositoryFrame, stored>>

\* The select of getAllSettings fails: the error is logged, {} is returned.
GetAllSettingsFails(i) ==
    /\ i \in PendingRequests("getAllSettings")
    /\ requests' = Returned(i, "failed", ObjectResult(EmptyObject))
    /\ UNCHANGED <<repositoryFrame, stored>>

\* Time passes; a timer that is due fires before the clock moves on.
Advance ==
    /\ \A l \in loops : l.due > now
    /\ now' = now + Step
    /\ UNCHANGED <<appVars, envVars, pollingSubscription, isMonitoring,
                   results, loops, runs, logVars>>

\* ------------------------------------------------------- specification
Next ==
    \/ \E iv \in Overrides : Len(runs) < MaxRuns /\ startMonitoring(iv)
    \/ stopMonitoring
    \/ \E l \in loops : Len(ticks) < MaxTicks /\ TimerFires(l)
    \/ \E l \in loops : Len(ticks) < MaxTicks /\ TimerFiresThrow(l)
    \/ \E l \in loops : Len(ticks) < MaxTicks /\ TimerFiresWebThrow(l)
    \/ \E t \in InFlight, lat \in Latencies : ProbeResolves(t, lat)
    \/ \E t \in InFlight : ProbeRejects(t)
    \/ now < MaxSteps * Step /\ Advance

Spec == Init /\ [][Next]_vars

\* A long run on a fast network: one startMonitoring call at time 0, every
\* probe settles before the clock moves on, and few probes fail.
Failures == Cardinality({i \in 1..Len(published) :
                            published[i].result.status = "error"})

NextHist ==
    \/ Len(runs) < 1 /\ startMonitoring(Step)
    \/ \E l \in loops : TimerFires(l)
    \/ \E t \in InFlight, lat \in Latencies : ProbeResolves(t, lat)
    \/ \E t \in InFlight : Failures < HistFails /\ ProbeRejects(t)
    \/ now < HistSteps * Step /\ loops # {} /\ InFlight = {} /\ Advance

SpecHist == Init /\ [][NextHist]_vars

\* One run with its database: the database comes up at any moment, and
\* every write stays pending, resolves or rejects.
NextPersist ==
    \/ DatabaseInit
    \/ Len(runs) < 1 /\ startMonitoring(Step)
    \/ \E l \in loops : Len(ticks) < PersistTicks /\ TimerFires(l)
    \/ \E t \in InFlight, lat \in Latencies : ProbeResolves(t, lat)
    \/ \E t \in InFlight : ProbeRejects(t)
    \/ \E i \in PendingWrites : ExecuteResolves(i)
    \/ \E i \in PendingWrites : ExecuteRejects(i)
    \/ now < PersistSteps * Step /\ Advance

SpecPersist == Init /\ [][NextPersist]_vars

\* Monitoring while the user edits the settings.
NextEnv ==
    \/ \E iv \in Overrides : Len(runs) < EnvRuns /\ startMonitoring(iv)
    \/ \E l \in loops : Len(ticks) < EnvTicks /\ TimerFires(l)
    \/ \E t \in InFlight, lat \in Latencies : ProbeResolves(t, lat)
    \/ \E t \in InFlight : ProbeRejects(t)
    \/ \E target \in Targets : SetTarget(target)
    \/ \E seconds \in ConfigIntervals : SetInterval(seconds)
    \/ now < EnvSteps * Step /\ Advance

SpecEnv == Init /\ [][NextEnv]_vars

\* One run while the host capability comes and goes.
NextPlatform ==
    \/ Len(runs) < 1 /\ startMonitoring(Step)
    \/ \E l \in loops : Len(ticks) < PlatformTicks /\ TimerFires(l)
    \/ \E t \in InFlight, lat \in Latencies : ProbeResolves(t, lat)
    \/ \E t \in InFlight : ProbeRejects(t)
    \/ \E present \in BOOLEAN : SetTauri(present)
    \/ now < PlatformSteps * Step /\ Advance

SpecPlatform == Init /\ [][NextPlatform]_vars

\* Runs and restarts while the configured interval changes; the probes stay
\* outstanding.
NextInterval ==
    \/ \E iv \in Overrides : Len(runs) < IntervalRuns /\ startMonitoring(iv)
    \/ \E l \in loops : Len(ticks) < IntervalTicks /\ TimerFires(l)
    \/ \E seconds \in ConfigIntervals : SetInterval(seconds)
    \/ now < IntervalSteps * Step /\ Advance

SpecInterval == Init /\ [][NextInterval]_vars

\* The page alone, subscribed to results$: it is given the history of that
\* moment, whatever it is, and then each history with one measurement more.
NextStats ==
    \/ \E history \in StatHistories :
          results = << >> /\ ResultsEmitted(history)
    \/ \E history \in StatHistories :
          /\ Len(history) = Len(results) + 1
          /\ SubSeq(history, 1, Len(results)) = results
          /\ ResultsEmitted(history)

SpecStats == Init /\ [][NextStats]_vars

\* The settings table as an earlier session left it: empty, or with a
\* whole monitoring section and a region section of two fields.
StoredInputs ==
    {EmptyTable,
     Replace(Replace(EmptyTable, KEY_MONITORING_CONFIG,
                     Stringify([pingTarget |-> "1.1.1.1", pingInterval |-> 10])),
             KEY_REGION,
             Stringify([countryCode |-> "US", countryName |-> "United States"]))}

\* The settings service after construction, over a table of StoredInputs.
InitSettings ==
    /\ now = 0
    /\ cfgTarget = DEFAULT_SETTINGS.monitoringConfig.pingTarget
    /\ cfgInterval = DEFAULT_SETTINGS.monitoringConfig.pingInterval
    /\ tauri = FALSE
    /\ pollingSubscription = Null
    /\ isMonitoring = FALSE
    /\ results = << >>
    /\ loops = {}
    /\ runs = << >>
    /\ ticks = << >>
    /\ published = << >>
    /\ saved = << >>
    /\ dbInitialized = FALSE
    /\ executed = << >>
    /\ promises = << >>
    /\ stats = ZeroStats
    /\ cfgOther = [region |-> DEFAULT_SETTINGS.region,
                   userInfo |-> DEFAULT_SETTINGS.userInfo,
                   connectionInfo |-> DEFAULT_SETTINGS.connectionInfo]
    /\ stored \in StoredInputs
    /\ calls = {}
    /\ microtasks = << >>
    /\ issued = << >>
    /\ requests = << >>
    /\ page = NewPage

\* No SettingsService call is suspended at its await.
NoCallAwaits == calls = {} /\ microtasks = << >>

\* One SettingsService call after the other: a call is made when no call
\* is suspended.  The database comes up at any moment between tasks, the
\* queued microtasks having run.
NextSettingsSeq ==
    \/ microtasks = << >> /\ DatabaseInit
    \/ \E p \in MonitoringPartials :
          NoCallAwaits /\ Len(issued) < MaxSeqCalls /\ updateMonitoringConfig(p)
    \/ \E p \in RegionPartials :
          NoCallAwaits /\ Len(issued) < MaxSeqCalls /\ updateRegion(p)
    \/ \E p \in UserInfoPartials :
          NoCallAwaits /\ Len(issued) < MaxSeqCalls /\ updateUserInfo(p)
    \/ \E p \in ConnectionInfoPartials :
          NoCallAwaits /\ Len(issued) < MaxSeqCalls /\ updateConnectionInfo(p)
    \/ NoCallAwaits /\ Len(issued) < MaxSeqCalls /\ loadSettings
    \/ SettingSkippedResumes
    \/ LoadSkippedResumes
    \/ \E c \in calls : SettingWritten(c)
    \/ \E c \in calls : SettingWriteFails(c)
    \/ \E c \in calls : LoadResolves(c)
    \/ \E c \in calls : LoadFails(c)

SpecSettingsSeq == InitSettings /\ [][NextSettingsSeq]_vars

\* The settings service over an initialised database whose reads and
\* writes succeed, with calls made at any moment.
InitSettingsUp ==
    /\ now = 0
    /\ cfgTarget = DEFAULT_SETTINGS.monitoringConfig.pingTarget
    /\ cfgInterval = DEFAULT_SETTINGS.monitoringConfig.pingInterval
    /\ tauri = FALSE
    /\ pollingSubscription = Null
    /\ isMonitoring = FALSE
    /\ results = << >>
    /\ loops = {}
    /\ runs = << >>
    /\ ticks = << >>
    /\ published = << >>
    /\ saved = << >>
    /\ dbInitialized = TRUE
    /\ executed = << >>
    /\ promises = << >>
    /\ stats = ZeroStats
    /\ cfgOther = [region |-> DEFAULT_SETTINGS.region,
                   userInfo |-> DEFAULT_SETTINGS.userInfo,
                   connectionInfo |-> DEFAULT_SETTINGS.connectionInfo]
    /\ stored = EmptyTable
    /\ calls = {}
    /\ microtasks = << >>
    /\ issued = << >>
    /\ requests = << >>
    /\ page = NewPage

NextSettings ==
    \/ \E p \in MonitoringPartials :
          Len(issued) < MaxCalls /\ updateMonitoringConfig(p)
    \/ \E p \in RegionPartials : Len(issued) < MaxCalls /\ updateRegion(p)
    \/ \E p \in UserInfoPartials : Len(issued) < MaxCalls /\ updateUserInfo(p)
    \/ \E p \in ConnectionInfoPartials :
          Len(issued) < MaxCalls /\ updateConnectionInfo(p)
    \/ Len(issued) < MaxCalls /\ loadSettings
    \/ \E c \in calls : SettingWritten(c)
    \/ \E c \in calls : LoadResolves(c)

SpecSettings == InitSettingsUp /\ [][NextSettings]_vars

\* The settings page over its service: the page is initialised and
\* destroyed, the interval and the target are changed and the defaults
\* restored at any moment, the database comes up at any moment and the
\* writes succeed or fail.
NextPage ==
    \/ microtasks = << >> /\ DatabaseInit
    \/ ngOnInit
    \/ ngOnDestroy
    \/ \E value \in IntervalInputs :
          /\ Len(page.changes) < MaxChanges
          /\ Len(issued) < MaxPageCalls
          /\ onIntervalChange(value)
    \/ \E value \in Targets :
          Len(issued) < MaxPageCalls /\ onTargetChange(value)
    \/ Len(issued) < MaxPageCalls /\ restoreDefaults
    \/ SettingSkippedResumes
    \/ \E c \in calls : SettingWritten(c)
    \/ \E c \in calls : SettingWriteFails(c)

SpecPage == InitSettings /\ [][NextPage]_vars

\* The texts a row holds: the JSON of a value, or a malformed text.
RepositoryTexts == {Stringify(v) : v \in RepositoryValues} \cup {Malformed}

\* The tables the repository finds: any rows under the keys.
RepositoryTables ==
    UNION {[keys -> RepositoryTexts] : keys \in SUBSET RepositoryKeys}

\* The repository after construction, over a table of RepositoryTables.
InitRepository ==
    /\ now = 0
    /\ cfgTarget = DEFAULT_SETTINGS.monitoringConfig.pingTarget
    /\ cfgInterval = DEFAULT_SETTINGS.monitoringConfig.pingInterval
    /\ tauri = FALSE
    /\ pollingSubscription = Null
    /\ isMonitoring = FALSE
    /\ results = << >>
    /\ loops = {}
    /\ runs = << >>
    /\ ticks = << >>
    /\ published = << >>
    /\ saved = << >>
    /\ dbInitialized = FALSE
    /\ executed = << >>
    /\ promises = << >>
    /\ stats = ZeroStats
    /\ cfgOther = [region |-> DEFAULT_SETTINGS.region,
                   userInfo |-> DEFAULT_SETTINGS.userInfo,
                   connectionInfo |-> DEFAULT_SETTINGS.connectionInfo]
    /\ stored \in RepositoryTables
    /\ calls = {}
    /\ microtasks = << >>
    /\ issued = << >>
    /\ requests = << >>
    /\ page = NewPage

\* A further call may be made: the calls are made one after the other.
MayRequest ==
    /\ Len(requests) < MaxRequests
    /\ \A i \in 1..Len(requests) : requests[i].promise # "pending"

\* The repository called directly, before and after the database is
\* initialised, its operations succeeding or failing.
NextRepository ==
    \/ DatabaseInit
    \/ \E key \in RepositoryKeys : MayRequest /\ getSetting(key)
    \/ \E key \in RepositoryKeys, value \in RepositoryValues :
          MayRequest /\ setSetting(key, value)
    \/ MayRequest /\ getAllSettings
    \/ \E i \in 1..Len(requests) : GetSettingResolves(i)
    \/ \E i \in 1..Len(requests) : GetSettingFails(i)
    \/ \E i \in 1..Len(requests) : SetSettingResolves(i)
    \/ \E i \in 1..Len(requests) : SetSettingFails(i)
    \/ \E i \in 1..Len(requests) : GetAllSettingsResolves(i)
    \/ \E i \in 1..Len(requests) : GetAllSettingsFails(i)

SpecRepository == InitRepository /\ [][NextRepository]_vars

\* ------------------------------------------------------------- claims
\* The pipeline pollingSubscription refers to is live.
LoopLive == \E l \in loops : l.run = pollingSubscription

TickIds == 1..Len(ticks)

\* Tick t leaves the transport in this step.
Settles(t) == ticks[t].outcome = "pending" /\ ticks'[t].outcome # "pending"

\* The ticks whose value the subscriber received.
PublishedTicks == {published[i].tick : i \in 1..Len(published)}

\* C1: at most one polling loop is live, and it is the loop of the last
\* startMonitoring call; the ticks of a run all come before the ticks of any
\* later run, so no tick of an old loop fires after a restart.
C1_SingleLoop ==
    /\ Cardinality(loops) <= 1
    /\ \A l \in loops : l.run = pollingSubscription
    /\ \A i, j \in TickIds : i < j => ticks[i].run <= ticks[j].run

\* A restart: startMonitoring was called while run 1 was live with a probe
\* in flight, and the new run has ticked.
C1_Witness ==
    /\ Len(runs) = 2
    /\ runs[2].restart
    /\ \E t \in InFlight : ticks[t].run = 1
    /\ \E t \in TickIds : ticks[t].run = 2

\* C2: while the scheduler is Idle (after stopMonitoring and before the next
\* startMonitoring) no step issues a probe, changes the history or calls
\* savePing, whatever time passes.
C2_IdleIsQuiet ==
    [][pollingSubscription = Null =>
          /\ Len(ticks') = Len(ticks)
          /\ results' = results
          /\ published' = published
          /\ saved' = saved]_vars

\* Idle after a run that ticked, two intervals after its last tick and with
\* ticks to spare: would-be tick boundaries have passed without a tick.
C2_Witness ==
    /\ pollingSubscription = Null
    /\ Len(ticks) >= 1
    /\ Len(ticks) < MaxTicks
    /\ now >= Last(ticks).at + 2 * runs[Last(ticks).run].interval

\* C3: a probe that settles after its run was ended, by stopMonitoring or by
\* a restart, changes neither the history nor what was published or saved.
C3_LateResultDiscarded ==
    [][\A t \in TickIds :
          (Settles(t) /\ ticks[t].run # pollingSubscription) =>
              /\ results' = results
              /\ published' = published
              /\ saved' = saved]_vars

\* The only probe of run 1 settled after run 1 was ended and a later run is
\* live: its result is nowhere.
C3_Witness ==
    /\ pollingSubscription = 2
    /\ \E t \in TickIds :
          /\ ticks[t].run = 1
          /\ ticks[t].outcome \in {"resolved", "rejected"}
          /\ t \notin PublishedTicks
          /\ \A u \in TickIds : ticks[u].run = 1 => u = t

\* C4: as long as stopMonitoring is not called the loop stays live.
C4_LoopNeverEndsOnItsOwn == pollingSubscription # Null => LoopLive

\* C5: a probe whose transport rejects while its inner observable is
\* subscribed publishes one error result (status 'error', latencyMs null),
\* which is appended to the history, and leaves the loop live with its next
\* tick scheduled as before.
C5_FailureIsAMeasurement ==
    [][\A t \in TickIds :
          (/\ ticks[t].outcome = "pending"
           /\ ticks'[t].outcome = "rejected"
           /\ \E l \in loops : l.run = ticks[t].run /\ l.inner = t) =>
              /\ published' =
                    Append(published,
                           [result |-> [latencyMs |-> Null, timestamp |-> now,
                                        status |-> "error"],
                            tick |-> t])
              /\ Len(results') >= 1
              /\ Last(results') = Last(published').result
              /\ \E l \in loops : \E m \in loops' :
                    /\ l.run = ticks[t].run
                    /\ m.run = l.run
                    /\ m.due = l.due
                    /\ m.interval = l.interval]_vars

\* A failed probe and then a successful one of the same run, both published.
C5_Witness ==
    /\ Len(published) = 2
    /\ ticks[published[1].tick].outcome = "rejected"
    /\ published[1].result.status = "error"
    /\ published[2].result.status = "ok"
    /\ ticks[published[1].tick].run = ticks[published[2].tick].run

\* C6: a probe that settles while its run is live publishes its result.
C6_EveryTickPublishes ==
    [][\A t \in TickIds :
          (Settles(t) /\ ticks[t].run = pollingSubscription /\ LoopLive) =>
              /\ Len(published') = Len(published) + 1
              /\ Last(published').tick = t]_vars

\* C7: at most one probe is outstanding at the transport.
C7_OneInFlight == Cardinality(InFlight) <= 1

\* C8: what the subscriber received is in tick order, and the history holds
\* it in that order.
C8_TickOrder ==
    /\ \A i, j \in 1..Len(published) :
          i < j => published[i].tick < published[j].tick
    /\ Len(results) <= Len(published)
    /\ \A k \in 1..Len(results) :
          results[k] = published[Len(published) - Len(results) + k].result

\* The probe of an earlier tick is still outstanding when the probe of a
\* later tick of the same run has completed and been published.
C8_Witness ==
    \E t \in InFlight : \E u \in PublishedTicks :
        t < u /\ ticks[t].run = ticks[u].run

\* C9: the history never has more than 50 entries and holds the last
\* min(n, 50) of the n published measurements, oldest first.
C9_BoundedHistory ==
    /\ Len(results) <= 50
    /\ Len(results) = IF Len(published) < 50 THEN Len(published) ELSE 50
    /\ \A k \in 1..Len(results) :
          results[k] = published[Len(published) - Len(results) + k].result

\* More than 50 measurements were published, a failed one among those kept:
\* the oldest have been evicted.
C9_Witness ==
    /\ Len(published) > 50
    /\ Len(results) = 50
    /\ results[1] = published[Len(published) - 49].result
    /\ \E k \in 1..Len(results) : results[k].status = "error"

\* C10: latencyMs is non-null exactly when status is 'ok', for every
\* measurement of the history and every measurement passed to savePing.
C10_LatencyIffOk ==
    /\ \A k \in 1..Len(results) :
          (results[k].latencyMs # Null) <=> (results[k].status = "ok")
    /\ \A k \in 1..Len(saved) :
          (saved[k].result.latencyMs # Null) <=> (saved[k].result.status = "ok")

\* The history holds a failed and a successful measurement, both saved.
C10_Witness ==
    /\ \E k \in 1..Len(results) : results[k].status = "error"
    /\ \E k \in 1..Len(results) : results[k].status = "ok"
    /\ Len(saved) = Len(results)

\* The scheduler's side of the state is left as it is.
SchedulerUnchanged ==
    UNCHANGED <<pollingSubscription, isMonitoring, results, loops, runs,
                ticks, published, saved>>

\* C11: a database write that fails, like one that succeeds, changes nothing
\* of the scheduler: the history, what was published, the probes and the
\* loop are as they were, so the measurements of a run do not depend on
\* the outcomes of its writes.
C11_WriteOutcomeIsLocal ==
    [][\A i \in 1..Len(executed) :
          (executed[i].state = "pending" /\ executed'[i].state # "pending") =>
              SchedulerUnchanged]_vars

\* Every write of the run has failed, and the loop is live with as many
\* measurements published as probes settled.
C11_Witness ==
    /\ Len(executed) >= 2
    /\ \A i \in 1..Len(executed) : executed[i].state = "failed"
    /\ Len(published) = Len(executed)
    /\ LoopLive

\* C12: while a write is pending, a timer that is due can fire, an
\* outstanding probe can settle and be delivered, and the clock can move on.
C12_PendingWriteBlocksNothing ==
    PendingWrites # {} =>
        /\ \A l \in loops : l.due <= now => ENABLED TimerFires(l)
        /\ \A t \in InFlight : ENABLED ProbeRejects(t)
        /\ \A t \in InFlight : \A lat \in Latencies :
              ENABLED ProbeResolves(t, lat)
        /\ (\A l \in loops : l.due > now) => ENABLED Advance

\* The write of the first measurement is still pending when two later
\* ticks have fired and the second measurement is in the history.
C12_Witness ==
    /\ Len(executed) >= 2
    /\ executed[1].state = "pending"
    /\ executed[1].params[1] < executed[2].params[1]
    /\ Len(ticks) = 3
    /\ Len(results) = 2

\* C13: savePing has been called once for every measurement the subscriber
\* appended to the history, in that order and with that measurement, and at
\* each call the history already ended with it.
C13_SavedIsPublished ==
    /\ Len(saved) = Len(published)
    /\ \A i \in 1..Len(saved) :
          /\ saved[i].result = published[i].result
          /\ saved[i].appended
    /\ Len(results) <= Len(saved)
    /\ \A k \in 1..Len(results) :
          results[k] = saved[Len(saved) - Len(results) + k].result

\* One measurement was appended and saved, while a probe that resolved
\* after its run had ended was dropped and never saved.
C13_Witness ==
    /\ Len(saved) = 1
    /\ Len(results) = 1
    /\ \E t \in TickIds :
          ticks[t].outcome = "resolved" /\ t \notin PublishedTicks

\* C14: the target passed to savePing with a measurement is the target its
\* probe was issued against.
C14_SavedTargetIsProbeTarget ==
    \A i \in 1..Len(saved) :
        saved[i].target = ticks[published[i].tick].target

\* C15: the probe of a tick is issued against the target the settings hold
\* in the step in which the tick fires.
C15_TargetReadAtTick ==
    [][Len(ticks') = Len(ticks) + 1 =>
          /\ Last(ticks').target = cfgTarget
          /\ cfgTarget' = cfgTarget]_vars

\* Two probes of the same run went to different targets: the target was
\* changed while the run was live, and the run was not restarted.
C15_Witness ==
    /\ Len(runs) = 1
    /\ pollingSubscription = 1
    /\ Len(ticks) = 2
    /\ ticks[1].target = "8.8.8.8"
    /\ ticks[2].target = "1.1.1.1"

\* The ticks of run r.
RunTicks(r) == {t \in TickIds : ticks[t].run = r}

\* No timer of a live loop is due.
NoTimerDue == \A l \in loops : l.due > now

\* C16: once every due timer has fired, the run that was started and not
\* stopped has fired one tick at its start and one at every whole interval
\* since: floor(T / I) + 1 ticks after a duration T.
C16_TickCadence ==
    (pollingSubscription # Null /\ NoTimerDue
        /\ RunTicks(pollingSubscription) # {}) =>
        LET r == pollingSubscription
            first == CHOOSE t \in RunTicks(r) : \A u \in RunTicks(r) : t <= u
            start == ticks[first].at
        IN  /\ Cardinality(RunTicks(r)) = (now - start) \div runs[r].interval + 1
            /\ \A t \in RunTicks(r) :
                  (ticks[t].at - start) % runs[r].interval = 0

\* C17: the interval of a run is the argument of its startMonitoring call
\* when one was given and the configured pingInterval x 1000 as it was at
\* the call otherwise; the timer keeps that interval and the ticks of the
\* run are whole intervals apart.
C17_IntervalOfRun ==
    /\ \A r \in 1..Len(runs) :
          runs[r].interval = IF runs[r].override # Null
                             THEN runs[r].override ELSE runs[r].config
    /\ \A l \in loops : l.interval = runs[l.run].interval
    /\ \A t, u \in TickIds :
          (t < u /\ ticks[t].run = ticks[u].run) =>
              /\ ticks[u].at - ticks[t].at >= runs[ticks[t].run].interval
              /\ (ticks[u].at - ticks[t].at) % runs[ticks[t].run].interval = 0

\* A run started without an argument keeps the interval that was configured
\* at the call after the configured interval has changed.
C17_Witness ==
    /\ Len(runs) = 1
    /\ runs[1].override = Null
    /\ runs[1].config # cfgInterval * 1000
    /\ \E l \in loops : l.run = 1 /\ l.interval = runs[1].config
    /\ Len(ticks) >= 1

\* C18: every startMonitoring call leaves exactly the loop of that call
\* live, with isMonitoring$ true; every stopMonitoring call that ends a run
\* leaves no loop, with isMonitoring$ false; and isMonitoring$ is true
\* exactly when the last call was startMonitoring, however the calls are
\* interleaved with each other, the timers and the probes.
C18_StateFollowsLastCall ==
    [][/\ Len(runs') = Len(runs) + 1 =>
            /\ pollingSubscription' = Len(runs')
            /\ \A l \in loops' : l.run = Len(runs')
            /\ \E l \in loops' : l.run = Len(runs') /\ l.due = now
            /\ isMonitoring'
       /\ (pollingSubscription # Null /\ pollingSubscription' = Null) =>
            /\ loops' = {}
            /\ ~isMonitoring'
       /\ isMonitoring' <=> (pollingSubscription' # Null)]_vars

\* start, stop, start: the second run was started from Idle, its loop is
\* live and isMonitoring$ is true.
C18_Witness ==
    /\ Len(runs) = 2
    /\ ~runs[2].restart
    /\ pollingSubscription = 2
    /\ LoopLive
    /\ isMonitoring

\* C19: a stopMonitoring call made when Idle changes nothing.
C19_StopWhenIdleIsNoOp ==
    [][(pollingSubscription = Null /\ stopMonitoring) => UNCHANGED vars]_vars

\* Idle after a run that left a measurement in the history: stopMonitoring
\* can be called again, and the state it leads to is the state it is
\* called in.
C19_Witness ==
    /\ pollingSubscription = Null
    /\ ~isMonitoring
    /\ Len(runs) >= 1
    /\ Len(results) >= 1
    /\ loops = {}
    /\ ENABLED stopMonitoring

\* C20: a savePing call made with the database initialised issues one
\* insert, whose parameters are the measurement's timestamp in epoch
\* milliseconds, its latencyMs (null for a failed probe), 1 for status
\* 'ok' and 0 otherwise, and the target of the call.
C20_InsertTuple ==
    [][(Len(saved') = Len(saved) + 1 /\ dbInitialized) =>
          LET call == Last(saved')
          IN  /\ Len(executed') = Len(executed) + 1
              /\ SubSeq(executed', 1, Len(executed)) = executed
              /\ Last(executed').params =
                    <<call.result.timestamp,
                      call.result.latencyMs,
                      IF call.result.status = "ok" THEN 1 ELSE 0,
                      call.target>>
              /\ call.result.status = "error" =>
                    Last(executed').params[2] = Null]_vars

\* The database holds the insert of a failed measurement, with a null
\* latency and success 0, and the insert of a successful one.
C20_Witness ==
    /\ \E i \in 1..Len(executed) :
          executed[i].params[2] = Null /\ executed[i].params[3] = 0
    /\ \E i \in 1..Len(executed) :
          executed[i].params[2] # Null /\ executed[i].params[3] = 1
    /\ Len(executed) = Len(saved)

\* C21: a savePing call made while the database is not initialised issues
\* no database operation and returns a resolved promise; and every database
\* operation is issued in the step of its savePing call, with the database
\* initialised, so a measurement saved before is never written later.
C21_NotInitialisedIsNoOp ==
    [][/\ (Len(saved') = Len(saved) + 1 /\ ~dbInitialized) =>
            /\ executed' = executed
            /\ Len(promises') = Len(saved')
            /\ Last(promises') = "resolved"
       /\ Len(executed') > Len(executed) =>
            /\ dbInitialized
            /\ Len(saved') = Len(saved) + 1
            /\ Len(executed') = Len(executed) + 1
            /\ Last(executed').call = Len(saved')]_vars

\* The first measurement was saved before the database came up and the
\* second after: only the second was written, also once its write is done.
C21_Witness ==
    /\ dbInitialized
    /\ Len(saved) = 2
    /\ Len(executed) = 1
    /\ executed[1].call = 2
    /\ executed[1].state = "done"
    /\ promises[1] = "resolved"

\* C22: no promise of savePing is ever rejected; the step in which a
\* database write fails resolves the promise of its savePing call and
\* leaves the scheduler as it is.
C22_SavePingNeverRejects ==
    [][/\ \A c \in 1..Len(promises') : promises'[c] # "rejected"
       /\ \A i \in 1..Len(executed) :
            (executed[i].state = "pending" /\ executed'[i].state = "failed")
                => /\ promises[executed[i].call] = "pending"
                   /\ promises'[executed[i].call] = "resolved"
                   /\ SchedulerUnchanged]_vars

\* A write has failed and the promise of its savePing call is resolved.
C22_Witness ==
    \E i \in 1..Len(executed) :
        /\ executed[i].state = "failed"
        /\ promises[executed[i].call] = "resolved"

\* The latencies of the entries of h whose status is 'ok', in order.
OkLats(h) ==
    LET pick == SelectSeq(h, LAMBDA m : m.status = "ok")
    IN  [i \in 1..Len(pick) |-> pick[i].latencyMs]

\* C23: the jitter is 0 for fewer than two Ok latencies; when a history is
\* followed by one with one more Ok latency at its end, whatever failed
\* entries lie between, the jitter J becomes J + (D - J)/16, D being the
\* absolute difference of the last two Ok latencies; it is 0.625 for
\* [10,20] and 310/256 for [10,20,30] and for [10,20,10].
C23_JitterRecurrence ==
    [][LET ok == OkLats(results)
           next == OkLats(results')
           j == stats.jitter
           k == stats'.jitter
       IN  /\ Len(next) < 2 => k = <<0, 1>>
           /\ (Len(ok) >= 1 /\ Len(next) = Len(ok) + 1
                  /\ SubSeq(next, 1, Len(ok)) = ok) =>
                 k = Fraction(15 * j[1] + Abs(Last(next) - Last(ok)) * j[2],
                              16 * j[2])
           /\ next = <<10, 20>> => 1000 * k[1] = 625 * k[2]
           /\ next \in {<<10, 20, 30>>, <<10, 20, 10>>} =>
                 256 * k[1] = 310 * k[2]]_vars

\* The page shows 155/128 = 1.2109375 for 10, 20, 10 with a failed entry
\* among them.
C23_Witness ==
    /\ OkLats(results) = <<10, 20, 10>>
    /\ Len(results) = 4
    /\ stats.jitter = <<155, 128>>

\* C24: a history without an Ok measurement gives the statistics
\* current = avg = min = max = jitter = 0.
C24_NoOkIsAllZero ==
    OkLats(results) = << >> =>
        /\ stats.current = 0
        /\ stats.avg[1] = 0
        /\ stats.min = 0
        /\ stats.max = 0
        /\ stats.jitter[1] = 0

\* The page was given a history of failed measurements only.
C24_Witness ==
    /\ Len(results) >= 2
    /\ \A i \in 1..Len(results) : results[i].status = "error"
    /\ stats.min = 0
    /\ stats.avg = <<0, 1>>

\* C25: with an Ok measurement in the history, avg is the sum of the Ok
\* latencies over their number, min and max are the least and the greatest
\* of them and min <= avg <= max; two histories with the same Ok latencies
\* have the same avg, min and max, whatever failed entries they hold.
C25_AggregatesOverOk ==
    [][LET ok == OkLats(results')
           st == stats'
       IN  /\ ok # << >> =>
                 /\ st.avg[1] * Len(ok) = SumOf(ok) * st.avg[2]
                 /\ \E i \in 1..Len(ok) : st.min = ok[i]
                 /\ \E i \in 1..Len(ok) : st.max = ok[i]
                 /\ \A i \in 1..Len(ok) : st.min <= ok[i] /\ ok[i] <= st.max
                 /\ st.min * st.avg[2] <= st.avg[1]
                 /\ st.avg[1] <= st.max * st.avg[2]
           /\ ok = OkLats(results) =>
                 /\ st.avg = stats.avg
                 /\ st.min = stats.min
                 /\ st.max = stats.max]_vars

\* 10, a failed probe, 30: the average is 20, between min 10 and max 30.
C25_Witness ==
    /\ OkLats(results) = <<10, 30>>
    /\ Len(results) = 3
    /\ results[2].status = "error"
    /\ stats.avg = <<20, 1>>
    /\ stats.min = 10
    /\ stats.max = 30

\* C26: current is the latency of the last Ok measurement of the history,
\* and 0 when there is none.
C26_CurrentIsLastOk ==
    stats.current =
        IF OkLats(results) = << >> THEN 0 ELSE Last(OkLats(results))

\* An Ok measurement of 20 ms followed by two failed ones: current is 20.
C26_Witness ==
    /\ Len(results) = 4
    /\ results[2].status = "ok"
    /\ results[2].latencyMs = 20
    /\ results[3].status = "error"
    /\ results[4].status = "error"
    /\ stats.current = 20

Sections == {"monitoringConfig", "region", "userInfo", "connectionInfo"}

KeyOf(section) ==
    CASE section = "monitoringConfig" -> KEY_MONITORING_CONFIG
      [] section = "region" -> KEY_REGION
      [] section = "userInfo" -> KEY_USER_INFO
      [] section = "connectionInfo" -> KEY_CONNECTION_INFO

\* Call i of the given kind completes in this step: its microtask runs
\* when the repository returned at once, else the promise it awaits
\* resolves.
Completes(i, kind) ==
    /\ i \in 1..Len(issued)
    /\ issued[i].kind = kind
    /\ \/ /\ microtasks # << >>
          /\ Head(microtasks).id = i
          /\ microtasks' = Tail(microtasks)
       \/ /\ issued[i].outcome = "pending"
          /\ issued'[i].outcome # "pending"

\* C27: an update called after the previous call has completed changes the
\* fields named in its partial to the values given and nothing else: the
\* other fields of its section and the other sections keep the values they
\* had, and the value of settings$ (getCurrentSettings) is that merge.
C27_UpdateChangesNamedFieldsOnly ==
    [][\A i \in 1..Len(issued') :
         Completes(i, "update") =>
           \A section \in Sections :
             /\ DOMAIN Settings'[section] = DOMAIN Settings[section]
             /\ \A f \in DOMAIN Settings[section] :
                  Settings'[section][f] =
                    IF section = issued'[i].section
                       /\ f \in DOMAIN issued'[i].partial
                    THEN issued'[i].partial[f]
                    ELSE Settings[section][f]]_vars

\* Two updates, one after the other, on two sections: both are in the
\* settings and every other field has its default.
C27_Witness ==
    /\ NoCallAwaits
    /\ Len(issued) = 2
    /\ issued[1] = [kind |-> "update", section |-> "monitoringConfig",
                    partial |-> [pingTarget |-> "1.1.1.1"],
                    outcome |-> "done"]
    /\ issued[2].kind = "update"
    /\ issued[2].section = "region"
    /\ Settings.monitoringConfig =
         [pingTarget |-> "1.1.1.1", pingInterval |-> 5]
    /\ Settings.region =
         [DEFAULT_SETTINGS.region EXCEPT !.countryCode = "US",
                                         !.countryName = "United States"]
    /\ Settings.userInfo = DEFAULT_SETTINGS.userInfo
    /\ Settings.connectionInfo = DEFAULT_SETTINGS.connectionInfo

\* The rows of the table that getAllSettings returned to call i: the table
\* when the select succeeded, nothing when the database was not initialised
\* or the select failed.
HasStoredField(i, section, f) ==
    /\ issued'[i].outcome = "done"
    /\ KeyOf(section) \in DOMAIN stored
    /\ \E m \in stored[KeyOf(section)] : m[1] = f

StoredFieldValue(section, f) ==
    (CHOOSE m \in stored[KeyOf(section)] : m[1] = f)[2]

\* C28: when loadSettings completes, every field of every section of the
\* settings is the stored value if the stored section has the field and the
\* default if not; with nothing stored the settings are DEFAULT_SETTINGS.
C28_LoadMergesStoredOverDefaults ==
    [][\A i \in 1..Len(issued') :
         Completes(i, "load") =>
           /\ \A section \in Sections :
                /\ DOMAIN Settings'[section] = DOMAIN DEFAULT_SETTINGS[section]
                /\ \A f \in DOMAIN DEFAULT_SETTINGS[section] :
                     Settings'[section][f] =
                       IF HasStoredField(i, section, f)
                       THEN StoredFieldValue(section, f)
                       ELSE DEFAULT_SETTINGS[section][f]
           /\ (\A section \in Sections :
                 \A f \in DOMAIN DEFAULT_SETTINGS[section] :
                   ~HasStoredField(i, section, f))
                => Settings' = DEFAULT_SETTINGS]_vars

\* loadSettings has read a table with a whole monitoring section and two
\* fields of the region: those are in the settings, the rest is default.
C28_Witness ==
    /\ NoCallAwaits
    /\ Len(issued) = 1
    /\ issued[1].kind = "load"
    /\ issued[1].outcome = "done"
    /\ KEY_REGION \in DOMAIN stored
    /\ Settings.monitoringConfig =
         [pingTarget |-> "1.1.1.1", pingInterval |-> 10]
    /\ Settings.region.countryCode = "US"
    /\ Settings.region.regulatoryBody = "Anatel"
    /\ Settings.userInfo = DEFAULT_SETTINGS.userInfo

\* C29: no update is lost under overlap: when every call has completed,
\* the settings hold each field an update supplied (fields that two calls
\* both supplied apart), whether or not the calls overlapped.
C29_NoUpdateLost ==
    (NoCallAwaits /\ \A k \in 1..Len(issued) : issued[k].kind = "update") =>
      \A i \in 1..Len(issued) :
        \A f \in DOMAIN issued[i].partial :
          (\A j \in 1..Len(issued) \ {i} :
             ~(issued[j].section = issued[i].section
               /\ f \in DOMAIN issued[j].partial))
            => Settings[issued[i].section][f] = issued[i].partial[f]

\* C30: with the database initialised and its writes succeeding, once no
\* call is outstanding each section of the settings is the value last
\* written under its key, and the default for a key never written.
C30_MemoryEqualsStorage ==
    NoCallAwaits =>
      \A section \in Sections :
        Settings[section] =
          IF KeyOf(section) \in DOMAIN stored
          THEN Parse(stored[KeyOf(section)])
          ELSE DEFAULT_SETTINGS[section]

\* C31: between calls isMonitoring$ is true exactly when a polling loop is
\* live, that is when a timer of the service has a further tick scheduled:
\* true after startMonitoring, false after stopMonitoring, never true once
\* the loop has ended.
C31_FlagIffLoopLive == isMonitoring <=> (loops # {})

\* C32: a change of the configured interval leaves the run in progress as
\* it is: its timer keeps the interval resolved at startMonitoring and its
\* next tick stays due when it was, and every tick of the run fires a whole
\* number of those intervals after the first, whatever interval is
\* configured by then; a startMonitoring call without an argument takes the
\* interval configured at the call.
C32_IntervalChangeWaitsForNextStart ==
    [][/\ cfgInterval' # cfgInterval =>
             UNCHANGED <<loops, pollingSubscription, isMonitoring, runs>>
       /\ \A l \in loops' : l.interval = runs'[l.run].interval
       /\ \A t, u \in 1..Len(ticks') :
             (t < u /\ ticks'[t].run = ticks'[u].run) =>
                 /\ ticks'[u].at > ticks'[t].at
                 /\ (ticks'[u].at - ticks'[t].at)
                       % runs'[ticks'[t].run].interval = 0
       /\ (Len(runs') = Len(runs) + 1 /\ Last(runs').override = Null) =>
             /\ Last(runs').interval = cfgInterval * 1000
             /\ \E l \in loops' : /\ l.run = Len(runs')
                                  /\ l.interval = cfgInterval * 1000]_vars

\* A run started at 1 s has the interval changed to 2 s while it is live,
\* fires its ticks 1 s apart all the same, and is then replaced by a run
\* started without an argument, which ticks at 2 s.
C32_Witness ==
    /\ Len(runs) = 2
    /\ runs[1].override = Null
    /\ runs[1].interval = 1000
    /\ runs[2].override = Null
    /\ runs[2].restart
    /\ runs[2].interval = 2000
    /\ Len(ticks) >= 2
    /\ runs[1].config = 1000
    /\ runs[2].config = 2000
    /\ ticks[1].run = 1
    /\ ticks[2].run = 1
    /\ ticks[2].at - ticks[1].at = 1000
    /\ \E l \in loops : l.run = 2 /\ l.interval = 2000

\* C33: a probe is issued over one transport, the native backend when
\* window.__TAURI__ is set in the step that issues it and the web request
\* when it is not; the transport of an issued probe stays what it was when
\* the capability changes, and the value delivered is the one of that
\* transport: the latency the backend reports, or the time elapsed since
\* the probe was issued.
C33_TransportChosenPerProbe ==
    [][/\ Len(ticks') = Len(ticks) + 1 =>
             /\ tauri' = tauri
             /\ Last(ticks').transport = IF tauri THEN "tauri" ELSE "web"
       /\ \A t \in TickIds : ticks'[t].transport = ticks[t].transport
       /\ \A t \in TickIds :
             (Settles(t) /\ ticks'[t].outcome = "resolved"
                 /\ Len(published') = Len(published) + 1) =>
                 /\ Last(published').result.status = "ok"
                 /\ ticks[t].transport = "web" =>
                       Last(published').result.latencyMs = now - ticks[t].at
                 /\ ticks[t].transport = "tauri" =>
                       Last(published').result.latencyMs \in Latencies]_vars

\* One run whose first probe went to the native backend and whose second
\* went over the web after the capability had gone; both were measured.
C33_Witness ==
    /\ Len(runs) = 1
    /\ Len(ticks) = 2
    /\ ticks[1].transport = "tauri" /\ ticks[1].outcome = "resolved"
    /\ ticks[2].transport = "web" /\ ticks[2].outcome = "resolved"
    /\ ticks[2].at = ticks[1].at + Step
    /\ ~tauri
    /\ Len(results) = 2
    /\ results[1].latencyMs = 10
    /\ results[2].latencyMs = 0

\* C34: a startMonitoring call and a stopMonitoring call leave the results
\* history as it is, and a measurement that arrives is appended to the
\* history as it stands, measurements of earlier runs included.
C34_StartStopKeepHistory ==
    [][/\ Len(runs') = Len(runs) + 1 => results' = results
       /\ (pollingSubscription # Null /\ pollingSubscription' = Null) =>
             results' = results
       /\ (isMonitoring /\ ~isMonitoring') => results' = results
       /\ (Len(published') = Len(published) + 1 /\ Len(results) < HistoryCap) =>
             results' = Append(results, Last(published').result)
       /\ Len(published') = Len(published) => results' = results]_vars

\* A run measured once and was stopped; a second run was started and
\* measured once: the history holds both measurements in that order.
C34_Witness ==
    /\ Len(runs) = 2
    /\ ~runs[2].restart
    /\ Len(published) = 2
    /\ ticks[published[1].tick].run = 1
    /\ ticks[published[2].tick].run = 2
    /\ results = <<published[1].result, published[2].result>>

\* C35: an update whose write fails, or is skipped because the database is
\* not initialised, completes all the same: the settings hold the section
\* merged with the partial, nothing is rolled back, the table is as it
\* was and the call no longer awaits anything.
C35_FailedWriteStillPublishes ==
    [][\A i \in 1..Len(issued') :
         (Completes(i, "update")
             /\ issued'[i].outcome \in {"failed", "skipped"}) =>
           LET section == issued'[i].section
               partial == issued'[i].partial
           IN  /\ \A f \in DOMAIN partial : Settings'[section][f] = partial[f]
               /\ \A f \in DOMAIN Settings[section] \ DOMAIN partial :
                     Settings'[section][f] = Settings[section][f]
               /\ stored' = stored
               /\ \A c \in calls' : c.id # i
               /\ \A k \in 1..Len(microtasks') : microtasks'[k].id # i]_vars

\* One update was made before the database was initialised and one had its
\* write fail: both are in the settings and neither is in the table.
C35_Witness ==
    /\ Len(issued) = 2
    /\ issued[1] = [kind |-> "update", section |-> "monitoringConfig",
                    partial |-> [pingTarget |-> "1.1.1.1"],
                    outcome |-> "skipped"]
    /\ issued[2] = [kind |-> "update", section |-> "region",
                    partial |-> [countryCode |-> "US",
                                 countryName |-> "United States"],
                    outcome |-> "failed"]
    /\ NoCallAwaits
    /\ stored = EmptyTable
    /\ Settings.monitoringConfig.pingTarget = "1.1.1.1"
    /\ Settings.region.countryCode = "US"

\* What a call of the repository gives when it does not reach the table.
Fallback(op) ==
    CASE op = "getSetting" -> NullResult
      [] op = "setSetting" -> UndefinedResult
      [] op = "getAllSettings" -> ObjectResult(EmptyObject)

\* C36: no call of getSetting, setSetting or getAllSettings rejects; a call
\* whose database operation failed is resolved, getSetting with null,
\* getAllSettings with the empty object and setSetting with undefined.
C36_RepositoryNeverRejects ==
    \A i \in 1..Len(requests) :
        /\ requests[i].promise # "rejected"
        /\ requests[i].database = "failed" =>
              /\ requests[i].promise = "resolved"
              /\ requests[i].result = Fallback(requests[i].op)

\* Each of the three operations had its database operation fail over a
\* table that holds the row asked for, and each call is resolved.
C36_Witness ==
    /\ Len(requests) = 3
    /\ {requests[i].op : i \in 1..3} =
          {"getSetting", "setSetting", "getAllSettings"}
    /\ \A i \in 1..3 : /\ requests[i].database = "failed"
                       /\ requests[i].promise = "resolved"
    /\ \E i \in 1..3 : /\ requests[i].op = "getSetting"
                       /\ requests[i].key \in DOMAIN stored
                       /\ IsJson(stored[requests[i].key])
                       /\ requests[i].result = NullResult

\* C37: a call made while the database is not initialised issues no
\* database operation: it is resolved in the step of the call, getSetting
\* with null, getAllSettings with the empty object and setSetting with
\* undefined, and the table is not written.
C37_NotInitialisedIssuesNothing ==
    [][\A i \in 1..Len(requests') :
         ~requests'[i].initialised =>
            /\ requests'[i].database = "none"
            /\ requests'[i].promise = "resolved"
            /\ requests'[i].result = Fallback(requests'[i].op)
            /\ i > Len(requests) => stored' = stored]_vars

\* The three operations were called before the database was initialised,
\* over a table that holds the row asked for.
C37_Witness ==
    /\ ~dbInitialized
    /\ Len(requests) = 3
    /\ {requests[i].op : i \in 1..3} =
          {"getSetting", "setSetting", "getAllSettings"}
    /\ \A i \in 1..3 : requests[i].database = "none"
    /\ \E i \in 1..3 : /\ requests[i].op = "getSetting"
                       /\ requests[i].key \in DOMAIN stored
                       /\ requests[i].result = NullResult
    /\ \E i \in 1..3 : /\ requests[i].op = "setSetting"
                       /\ requests[i].key \notin DOMAIN stored

\* C38: when its select succeeds getAllSettings returns the rows whose
\* value parses, each under its key with the parsed value, and no other
\* key: a malformed row is left out and the other rows are returned.
C38_AllParsableRowsReturned ==
    [][\A i \in 1..Len(requests) :
         (requests[i].op = "getAllSettings"
             /\ requests[i].database = "pending"
             /\ requests'[i].database = "ok") =>
            /\ requests'[i].promise = "resolved"
            /\ requests'[i].result =
                 ObjectResult([k \in {r \in DOMAIN stored : IsJson(stored[r])}
                                  |-> Parse(stored[k])])]_vars

\* The interval of 1..60 nearest to v.
Clamped(v) == IF v < 1 THEN 1 ELSE IF v > 60 THEN 60 ELSE v

\* C39: onIntervalChange(v) calls updateMonitoringConfig with the interval
\* max(1, min(60, v)), which lies in 1..60 and is v when v does; when v
\* lies outside 1..60 the pingInterval field of the page is set to the
\* clamped value; the interval in the settings and in the table stays in
\* 1..60.
C39_IntervalClamped ==
    [][/\ Len(page'.changes) = Len(page.changes) + 1 =>
             LET change == Last(page'.changes)
                 v == change.value
             IN  /\ Clamped(v) \in 1..60
                 /\ v \in 1..60 => Clamped(v) = v
                 /\ change.passed = [pingInterval |-> Clamped(v)]
                 /\ Len(issued') = Len(issued) + 1
                 /\ Last(issued').kind = "update"
                 /\ Last(issued').section = "monitoringConfig"
                 /\ Last(issued').partial = [pingInterval |-> Clamped(v)]
                 /\ v \notin 1..60 =>
                       /\ change.pingInterval = Clamped(v)
                       /\ page'.pingInterval = Clamped(v)
       /\ cfgInterval' \in 1..60
       /\ KEY_MONITORING_CONFIG \in DOMAIN stored' =>
             \A m \in stored'[KEY_MONITORING_CONFIG] :
                 m[1] = "pingInterval" => m[2] \in 1..60]_vars

\* The page was given 100, passed 60 on and showed 60; it was then given 10
\* and passed 10 on; both were written and the settings hold 10.
C39_Witness ==
    /\ Len(page.changes) = 2
    /\ page.changes[1] = [value |-> 100, passed |-> [pingInterval |-> 60],
                          pingInterval |-> 60]
    /\ page.changes[2].value = 10
    /\ page.changes[2].passed = [pingInterval |-> 10]
    /\ NoCallAwaits
    /\ issued[1].outcome = "done"
    /\ issued[2].outcome = "done"
    /\ cfgInterval = 10
    /\ <<"pingInterval", 10>> \in stored[KEY_MONITORING_CONFIG]
====
